---------------------------- MODULE Spec2Model ----------------------------
(***************************************************************************)
(* A model of main.py of GIS Project Starter: the state resolver           *)
(* (resolve_state_fips), the boundary builders (build_boundary,            *)
(* build_city_boundary), the clip step (clip_layer_to_boundary) and the    *)
(* pipeline that main() runs over them.                                    *)
(*                                                                         *)
(* Text is a sequence of one-character strings.  A GeoDataFrame is a       *)
(* record [crs, rows]; crs "None" is a frame without a coordinate          *)
(* reference system.  A geometry is a record [type, cells]: cells is a     *)
(* closed set of cells of a small planar grid (faces, edges, vertices).    *)
(* A value that may be absent is a sequence of length 0 or 1.              *)
(***************************************************************************)
EXTENDS Integers, Sequences, FiniteSets, TLC

VARIABLES
    pc,            \* position of the call or run being modelled
    user_input,    \* the arguments of the call, or what input() returned
    states_gdf,    \* gpd.read_file(states_shp)
    counties_gdf,  \* gpd.read_file(counties_shp)
    places_gdf,    \* gpd.read_file(place_shp)
    roads_gdf,     \* gpd.read_file(roads_shp)
    base,          \* gpd.read_file(layer_shp) inside clip_layer_to_boundary
    boundary,      \* the boundary GeoDataFrame, once built
    state_fips,    \* the STATEFP used for the per-state downloads
    ret,           \* the value the call returned
    error,         \* the exception that ended the call ("None": none)
    outputs,       \* the files written with to_file
    events,        \* downloads, clip calls and printed reports, in order
    locals         \* the local variables of main()

vars == <<pc, user_input, states_gdf, counties_gdf, places_gdf, roads_gdf,
          base, boundary, state_fips, ret, error, outputs, events, locals>>

-----------------------------------------------------------------------------
(* Bounds of the model. *)

\* rows of the reference states dataset
MaxStates == 2
\* whitespace characters on each side of a typed text
MaxPad == 1
\* rows of the reference counties dataset
MaxCounties == 3
\* rows of a state's PLACE dataset
MaxPlaces == 2
\* features of a layer that is clipped
MaxFeatures == 3

-----------------------------------------------------------------------------
(* Values that may be absent, and the outcome of a call. *)

Nothing == <<>>
Some(v) == <<v>>

Return(v) == [err |-> "None", val |-> Some(v)]
Raise(e) == [err |-> e, val |-> Nothing]

\* The raise sites of main.py.
CouldNotResolveState == "ValueError: Could not resolve state"
NoStateFound == "ValueError: No state found"
FipsNot5Digits == "ValueError: County FIPS must be a 5-digit numeric code"
NoCountyFound == "ValueError: No county found with FIPS"
UnsupportedType == "ValueError: build_boundary only supports 'state' or 'fips'"
NoPlaceFound == "ValueError: No place named"
CRSMissing == "ValueError: CRS missing on base or boundary"
InvalidChoice == "ValueError: Invalid choice"
HTTPError == "requests.HTTPError"
IOFailure == "OSError"

-----------------------------------------------------------------------------
(* str methods. *)

LowerLetters == <<"a","b","c","d","e","f","g","h","i","j","k","l","m",
                  "n","o","p","q","r","s","t","u","v","w","x","y","z">>
UpperLetters == <<"A","B","C","D","E","F","G","H","I","J","K","L","M",
                  "N","O","P","Q","R","S","T","U","V","W","X","Y","Z">>

\* One character of str.lower(): an upper-case letter maps to its lower-case
\* letter, every other character to itself.
LowerChar(c) ==
    IF \E i \in 1..Len(UpperLetters) : UpperLetters[i] = c
    THEN LowerLetters[CHOOSE i \in 1..Len(UpperLetters) : UpperLetters[i] = c]
    ELSE c

UpperChar(c) ==
    IF \E i \in 1..Len(LowerLetters) : LowerLetters[i] = c
    THEN UpperLetters[CHOOSE i \in 1..Len(LowerLetters) : LowerLetters[i] = c]
    ELSE c

lower(s) == [i \in 1..Len(s) |-> LowerChar(s[i])]
upper(s) == [i \in 1..Len(s) |-> UpperChar(s[i])]

Whitespace == {" "}

RECURSIVE lstrip(_)
lstrip(s) ==
    IF s # <<>> /\ Head(s) \in Whitespace THEN lstrip(Tail(s)) ELSE s

RECURSIVE rstrip(_)
rstrip(s) ==
    IF s # <<>> /\ s[Len(s)] \in Whitespace
    THEN rstrip(SubSeq(s, 1, Len(s) - 1))
    ELSE s

strip(s) == rstrip(lstrip(s))

RECURSIVE zfill(_, _)
zfill(s, width) == IF Len(s) >= width THEN s ELSE zfill(<<"0">> \o s, width)

\* ASCII digits, and characters outside ASCII that Unicode classes as digits
\* (SUPERSCRIPT TWO, ARABIC-INDIC DIGIT THREE): str.isdigit() is true of both.
AsciiDigits == {"0","1","2","3","4","5","6","7","8","9"}
UnicodeDigits == {"\\u00b2", "\\u0663"}

isdigit(s) ==
    /\ s # <<>>
    /\ \A i \in 1..Len(s) : s[i] \in AsciiDigits \cup UnicodeDigits

-----------------------------------------------------------------------------
(* resolve_state_fips *)

\* The resolver with its two rules in the other order.
resolve_state_fips_code_first(states, user_text) ==
    LET text == strip(user_text)
        by_name == SelectSeq(states.rows, LAMBDA r : lower(r.NAME) = lower(text))
        by_code == SelectSeq(states.rows, LAMBDA r : upper(r.STUSPS) = upper(text))
    IN  IF by_code # <<>>
        THEN Return(zfill(by_code[1].STATEFP, 2))
        ELSE IF by_name # <<>>
        THEN Return(zfill(by_name[1].STATEFP, 2))
        ELSE Raise(CouldNotResolveState)

\* The resolver taking the last matching row (iloc[-1]) instead of the first.
resolve_state_fips_last_row(states, user_text) ==
    LET text == strip(user_text)
        by_name == SelectSeq(states.rows, LAMBDA r : lower(r.NAME) = lower(text))
        by_code == SelectSeq(states.rows, LAMBDA r : upper(r.STUSPS) = upper(text))
    IN  IF by_name # <<>>
        THEN Return(zfill(by_name[Len(by_name)].STATEFP, 2))
        ELSE IF by_code # <<>>
        THEN Return(zfill(by_code[Len(by_code)].STATEFP, 2))
        ELSE Raise(CouldNotResolveState)

resolve_state_fips(states, user_text) ==
    LET text == strip(user_text)
        by_name == SelectSeq(states.rows, LAMBDA r : lower(r.NAME) = lower(text))
        by_code == SelectSeq(states.rows, LAMBDA r : upper(r.STUSPS) = upper(text))
    IN  IF by_name # <<>>
        THEN Return(zfill(by_name[1].STATEFP, 2))
        ELSE IF by_code # <<>>
        THEN Return(zfill(by_code[1].STATEFP, 2))
        ELSE Raise(CouldNotResolveState)

-----------------------------------------------------------------------------
(* Geometry.  The plane is a grid of GridW unit squares in a row, in       *)
(* doubled coordinates: a cell <<x, y>> is a vertex when x and y are even, *)
(* an edge when exactly one is odd, a face when both are odd.  A geometry  *)
(* is a closed set of cells, and the intersection and the union of two     *)
(* geometries are the intersection and the union of their cells.           *)

\* squares in the row
GridW == 3

Cells == (0..(2 * GridW)) \X (0..2)

Dim(c) == (c[1] % 2) + (c[2] % 2)

\* A cell with the cells that bound it.
Closure(c) ==
    ((c[1] - (c[1] % 2))..(c[1] + (c[1] % 2)))
        \X ((c[2] - (c[2] % 2))..(c[2] + (c[2] % 2)))

ClosureOf(gens) == UNION {Closure(c) : c \in gens}

\* The parts of a point set by dimension: its faces, the edges that bound
\* none of its faces, the vertices that end none of those.
FacesOf(S) == {c \in S : Dim(c) = 2}
FreeEdges(S) ==
    LET covered == ClosureOf(FacesOf(S))
    IN  {c \in S : Dim(c) = 1 /\ c \notin covered}
FreeVertices(S) ==
    LET covered == ClosureOf(FacesOf(S) \cup FreeEdges(S))
    IN  {c \in S : Dim(c) = 0 /\ c \notin covered}

\* Two faces are joined when they share an edge, two edges when they share
\* a vertex.
Joined(a, b) ==
    \E d \in Closure(a) \cap Closure(b) : Dim(d) = Dim(a) - 1

RECURSIVE Grow(_, _)
Grow(G, R) ==
    LET R2 == R \cup {g \in G : \E r \in R : Joined(g, r)}
    IN  IF R2 = R THEN R ELSE Grow(G, R2)

RECURSIVE NumParts(_)
NumParts(G) ==
    IF G = {} THEN 0
    ELSE LET s == CHOOSE g \in G : TRUE
         IN  1 + NumParts(G \ Grow(G, {s}))

\* The geometry type the engine gives a computed point set.
GeomTypeOf(S) ==
    LET f == FacesOf(S)
        e == FreeEdges(S)
        v == FreeVertices(S)
    IN  IF S = {} THEN "GeometryCollection"
        ELSE IF f # {} /\ e = {} /\ v = {}
        THEN (IF NumParts(f) = 1 THEN "Polygon" ELSE "MultiPolygon")
        ELSE IF f = {} /\ e # {} /\ v = {}
        THEN (IF NumParts(e) = 1 THEN "LineString" ELSE "MultiLineString")
        ELSE IF f = {} /\ e = {} /\ v # {}
        THEN (IF Cardinality(v) = 1 THEN "Point" ELSE "MultiPoint")
        ELSE "GeometryCollection"

Geom(type, gens) == [type |-> type, cells |-> ClosureOf(gens)]

\* shapely intersection: a geometry the other covers comes back as it is.
intersection(g, mask) ==
    IF g.cells \subseteq mask THEN g
    ELSE LET S == g.cells \cap mask IN [type |-> GeomTypeOf(S), cells |-> S]

\* shapely union_all / unary_union of the geometries of a sequence of rows.
union_all(rows) ==
    LET S == UNION {rows[i].geometry.cells : i \in 1..Len(rows)}
    IN  [type |-> GeomTypeOf(S), cells |-> S]

\* Coordinate reference systems.  The same place has other coordinates in
\* the other system: the change of coordinates mirrors the grid.
CRS_A == "EPSG:4269"
CRS_B == "EPSG:3857"
NoCRS == "None"

Reproject(c) == <<2 * GridW - c[1], c[2]>>

Transform(S, from, to) == IF from = to THEN S ELSE {Reproject(c) : c \in S}

to_crs(gdf, crs) ==
    [crs |-> crs,
     rows |-> [i \in 1..Len(gdf.rows) |->
                 [gdf.rows[i] EXCEPT !.geometry.cells = Transform(@, gdf.crs, crs)]]]

\* A dissolve that merges nothing.
dissolve_keeps_rows(gdf) == gdf

\* GeoDataFrame.dissolve() with no key, then reset_index: one row, the
\* first row's attributes, the union of all geometries.
dissolve(gdf) ==
    [crs |-> gdf.crs,
     rows |-> << [gdf.rows[1] EXCEPT !.geometry = union_all(gdf.rows)] >>]

\* gdf[mask]: the rows at which a boolean mask is true, in their order.
RECURSIVE Masked(_, _)
Masked(rows, mask) ==
    IF rows = <<>> THEN <<>>
    ELSE (IF Head(mask) THEN <<Head(rows)>> ELSE <<>>)
             \o Masked(Tail(rows), Tail(mask))

Filter(gdf, mask) == [crs |-> gdf.crs, rows |-> Masked(gdf.rows, mask)]

empty(gdf) == gdf.rows = <<>>

-----------------------------------------------------------------------------
(* build_boundary, build_city_boundary *)

StateType == <<"s","t","a","t","e">>
FipsType == <<"f","i","p","s">>
CityType == <<"c","i","t","y">>

build_boundary(boundary_type, boundary_value, states, counties) ==
    LET type == strip(lower(boundary_type))
        value == strip(boundary_value)
    IN  IF type = StateType
        THEN LET r == resolve_state_fips(states, value)
             IN  IF r.err # "None" THEN r
                 ELSE LET fips == r.val[1]
                          selected == Filter(states, [i \in 1..Len(states.rows) |->
                                          states.rows[i].STATEFP = fips])
                      IN  IF empty(selected) THEN Raise(NoStateFound)
                          ELSE Return(dissolve(selected))
        ELSE IF type = FipsType
        THEN IF Len(value) # 5 \/ ~isdigit(value)
             THEN Raise(FipsNot5Digits)
             ELSE LET subset == Filter(counties, [i \in 1..Len(counties.rows) |->
                                          counties.rows[i].GEOID = value])
                  IN  IF empty(subset) THEN Raise(NoCountyFound)
                      ELSE Return(dissolve(subset))
        ELSE Raise(UnsupportedType)

\* download_ok: whether download_zip and unzip_zip delivered the state's
\* PLACE file (requests and zipfile raise otherwise).
build_city_boundary(city_name, state_input, states, places, download_ok) ==
    LET r == resolve_state_fips(states, state_input)
    IN  IF r.err # "None" THEN r
        ELSE IF ~download_ok THEN Raise(HTTPError)
        ELSE LET fips == r.val[1]
                 mask_name == [i \in 1..Len(places.rows) |->
                                 lower(places.rows[i].NAME) = lower(strip(city_name))]
                 mask_state == [i \in 1..Len(places.rows) |->
                                  places.rows[i].STATEFP = fips]
                 subset == Filter(places, [i \in 1..Len(places.rows) |->
                                              mask_name[i] /\ mask_state[i]])
             IN  IF empty(subset) THEN Raise(NoPlaceFound)
                 ELSE Return(dissolve(subset))

-----------------------------------------------------------------------------
(* clip_layer_to_boundary *)

polygonish == {"Polygon", "MultiPolygon"}
lineish == {"LineString", "MultiLineString"}
pointish == {"Point", "MultiPoint"}

\* geopandas.clip(gdf, mask): the rows of gdf that intersect the union of
\* the mask's geometries, each with its geometry replaced by its intersection
\* with that union; index, attributes and crs are those of gdf.  The
\* coordinates of the mask are taken as they are.
gpd_clip(gdf, mask) ==
    LET m == union_all(mask.rows).cells
        hit == SelectSeq(gdf.rows, LAMBDA row : row.geometry.cells \cap m # {})
    IN  [crs |-> gdf.crs,
         rows |-> [i \in 1..Len(hit) |->
                     [hit[i] EXCEPT !.geometry = intersection(@, m)]]]

geom_type_unique(gdf) == {gdf.rows[i].geometry.type : i \in 1..Len(gdf.rows)}

AllTypes ==
    polygonish \cup lineish \cup pointish \cup {"GeometryCollection"}

\* The fallback that filters nothing.
AllowedTypes_open_fallback(geom_types) ==
    IF geom_types \subseteq polygonish THEN polygonish
    ELSE IF geom_types \subseteq lineish THEN lineish
    ELSE IF geom_types \subseteq pointish THEN pointish
    ELSE AllTypes

AllowedTypes(geom_types) ==
    IF geom_types \subseteq polygonish THEN polygonish
    ELSE IF geom_types \subseteq lineish THEN lineish
    ELSE IF geom_types \subseteq pointish THEN pointish
    ELSE geom_types

\* The boundary used as it is, whatever its coordinate reference system.
AlignCRS_never(layer, boundary_gdf) == boundary_gdf

AlignCRS(layer, boundary_gdf) ==
    IF layer.crs # boundary_gdf.crs THEN to_crs(boundary_gdf, layer.crs)
    ELSE boundary_gdf

\* The allowed family decided from the clipped features.
allowed_from_clipped(layer, clipped) == AllowedTypes(geom_type_unique(clipped))

allowed_types(layer, clipped) == AllowedTypes(geom_type_unique(layer))

\* The clip with the layer brought into the boundary's system.
clip_layer_reprojected(layer, boundary_gdf, read_ok, write_ok) ==
    IF ~read_ok THEN Raise(IOFailure)
    ELSE IF layer.crs = NoCRS \/ boundary_gdf.crs = NoCRS THEN Raise(CRSMissing)
    ELSE LET moved == IF layer.crs # boundary_gdf.crs
                      THEN to_crs(layer, boundary_gdf.crs) ELSE layer
             clipped == gpd_clip(moved, boundary_gdf)
             allowed == allowed_types(layer, clipped)
         IN  IF ~write_ok THEN Raise(IOFailure)
             ELSE Return(Filter(clipped, [i \in 1..Len(clipped.rows) |->
                                        clipped.rows[i].geometry.type \in allowed]))

\* The value returned stands for the file written to output_path.
\* read_ok, write_ok: whether read_file and to_file succeeded.
clip_layer_to_boundary(layer, boundary_gdf, read_ok, write_ok) ==
    IF ~read_ok THEN Raise(IOFailure)
    ELSE IF layer.crs = NoCRS \/ boundary_gdf.crs = NoCRS THEN Raise(CRSMissing)
    ELSE LET clipped == gpd_clip(layer, AlignCRS(layer, boundary_gdf))
             allowed == allowed_types(layer, clipped)
         IN  IF ~write_ok THEN Raise(IOFailure)
             ELSE Return(Filter(clipped, [i \in 1..Len(clipped.rows) |->
                                        clipped.rows[i].geometry.type \in allowed]))

-----------------------------------------------------------------------------
(* Input domains. *)

SeqsUpTo(S, n) == UNION {[1..k -> S] : k \in 0..n}

Texas == <<"T","e","x","a","s">>
Ohio == <<"O","h","i","o">>
TX == <<"T","X">>
OH == <<"O","H">>
Zzland == <<"Z","z","l","a","n","d">>

\* A frame that is not read in the call being modelled.
NoFrame == [crs |-> NoCRS, rows |-> <<>>]

\* Rows of tl_2020_us_state: NAME, STUSPS, STATEFP.  TX also occurs as a
\* NAME, so that the two rules of the resolver can disagree; STATEFP "6" is
\* an identifier that lost its leading zero when the file was loaded.
StateNames == {Texas, TX}
StateCodes == {TX, OH}
StateFPs == {<<"4","8">>, <<"3","9">>, <<"6">>}
StateRecords == [NAME : StateNames, STUSPS : StateCodes, STATEFP : StateFPs]

StatesFrames ==
    {[crs |-> CRS_A, rows |-> r] : r \in SeqsUpTo(StateRecords, MaxStates)}

\* What a user may type for a text: any letter case, padded with blanks.
Pad(n) == [i \in 1..n |-> " "]
MixedCase(t) ==
    [i \in 1..Len(t) |-> IF i % 2 = 1 THEN LowerChar(t[i]) ELSE UpperChar(t[i])]
TypedForms(t) ==
    {Pad(l) \o v \o Pad(r) :
        l \in 0..MaxPad, r \in 0..MaxPad, v \in {t, lower(t), upper(t), MixedCase(t)}}

StateInputs == UNION {TypedForms(t) : t \in {Texas, Ohio, TX, OH, Zzland, <<>>}}

-----------------------------------------------------------------------------
(* The end of a call: its value or its exception. *)

Finish(r) ==
    /\ ret' = r.val
    /\ error' = r.err
    /\ pc' = IF r.err = "None" THEN "returned" ELSE "raised"

Finished == pc \in {"returned", "raised"}

-----------------------------------------------------------------------------
(* SpecResolve: resolve_state_fips called on a states frame and a text. *)

InitResolve ==
    /\ pc = "resolve_state_fips"
    /\ states_gdf \in StatesFrames
    /\ user_input \in [text : StateInputs]
    /\ counties_gdf = NoFrame
    /\ places_gdf = NoFrame
    /\ roads_gdf = NoFrame
    /\ base = NoFrame
    /\ boundary = Nothing
    /\ state_fips = Nothing
    /\ ret = Nothing
    /\ error = "None"
    /\ outputs = {}
    /\ events = <<>>
    /\ locals = <<>>

ResolveStateCall ==
    /\ pc = "resolve_state_fips"
    /\ Finish(resolve_state_fips(states_gdf, user_input.text))
    /\ UNCHANGED <<user_input, states_gdf, counties_gdf, places_gdf, roads_gdf,
                   base, boundary, state_fips, outputs, events, locals>>

NextResolve == ResolveStateCall

SpecResolve == InitResolve /\ [][NextResolve]_vars

-----------------------------------------------------------------------------
(* Claims about the resolver, under SpecResolve. *)

\* Equality of two texts up to letter case, stated without str.lower().
SameLetter(c, d) ==
    \/ c = d
    \/ \E k \in 1..Len(LowerLetters) :
          {c, d} = {LowerLetters[k], UpperLetters[k]}

EqIgnoreCase(a, b) ==
    /\ Len(a) = Len(b)
    /\ \A i \in 1..Len(a) : SameLetter(a[i], b[i])

\* A STATEFP as a 2-character identifier.
TwoDigits(f) == IF Len(f) = 1 THEN <<"0", f[1]>> ELSE f

\* The text the rules are applied to: what was typed, without the blanks
\* around it.
TypedText == strip(user_input.text)

NameHits ==
    {i \in 1..Len(states_gdf.rows) : EqIgnoreCase(states_gdf.rows[i].NAME, TypedText)}
CodeHits ==
    {i \in 1..Len(states_gdf.rows) : EqIgnoreCase(states_gdf.rows[i].STUSPS, TypedText)}

Min(S) == CHOOSE m \in S : \A n \in S : m <= n

\* No two rows share a name or a code, and no name reads as a code.
DistinctStates ==
    \A i, j \in 1..Len(states_gdf.rows) :
        /\ ~EqIgnoreCase(states_gdf.rows[i].NAME, states_gdf.rows[j].STUSPS)
        /\ i # j => /\ ~EqIgnoreCase(states_gdf.rows[i].NAME, states_gdf.rows[j].NAME)
                    /\ ~EqIgnoreCase(states_gdf.rows[i].STUSPS, states_gdf.rows[j].STUSPS)

\* C1: the full-name rule is tried first and wins; the postal-code rule is
\* used only when no name matches; the result is 2 ASCII digits; and in a
\* frame whose names and codes are distinct, the name and the code of a row,
\* in any letter case, resolve to that row's zero-padded STATEFP.
C1_RuleOrder ==
    Finished =>
        /\ NameHits # {} =>
              /\ ret # Nothing
              /\ \E i \in NameHits : ret[1] = TwoDigits(states_gdf.rows[i].STATEFP)
        /\ (NameHits = {} /\ CodeHits # {}) =>
              /\ ret # Nothing
              /\ \E i \in CodeHits : ret[1] = TwoDigits(states_gdf.rows[i].STATEFP)
        /\ ret # Nothing =>
              /\ Len(ret[1]) = 2
              /\ \A k \in 1..2 : ret[1][k] \in AsciiDigits
        /\ DistinctStates =>
              \A i \in NameHits \cup CodeHits :
                  ret = Some(TwoDigits(states_gdf.rows[i].STATEFP))

\* "tx" typed for a frame whose first row has the code TX and whose second
\* row has the name TX: the name rule wins, and the second row's STATEFP "6"
\* comes back zero-padded.
C1_Witness ==
    /\ pc = "returned"
    /\ user_input.text = lower(TX)
    /\ Len(states_gdf.rows) = 2
    /\ states_gdf.rows[1] = [NAME |-> Texas, STUSPS |-> TX, STATEFP |-> <<"4","8">>]
    /\ states_gdf.rows[2] = [NAME |-> TX, STUSPS |-> OH, STATEFP |-> <<"6">>]
    /\ CodeHits = {1}
    /\ NameHits = {2}
    /\ ret = Some(<<"0","6">>)

\* C2 as stated: the call fails, and returns nothing, whenever neither rule
\* matches exactly one row.
C2_FailsUnlessExactlyOne ==
    (Finished /\ Cardinality(NameHits) # 1 /\ Cardinality(CodeHits) # 1) =>
        /\ error = CouldNotResolveState
        /\ ret = Nothing

\* C2 amended: the call fails exactly when neither rule matches any row; a
\* rule that matches several rows yields the first of them.
C2_FailsIffNoMatch ==
    Finished =>
        /\ (error = CouldNotResolveState) <=> (NameHits = {} /\ CodeHits = {})
        /\ (error = CouldNotResolveState) <=> (ret = Nothing)
        /\ Cardinality(NameHits) > 1 =>
              ret = Some(TwoDigits(states_gdf.rows[Min(NameHits)].STATEFP))
        /\ (NameHits = {} /\ Cardinality(CodeHits) > 1) =>
              ret = Some(TwoDigits(states_gdf.rows[Min(CodeHits)].STATEFP))

\* Two rows named Texas with different identifiers: the first is returned.
C2_Witness ==
    /\ pc = "returned"
    /\ Cardinality(NameHits) = 2
    /\ states_gdf.rows[1].STATEFP # states_gdf.rows[2].STATEFP
    /\ ret = Some(TwoDigits(states_gdf.rows[1].STATEFP))

-----------------------------------------------------------------------------
(* SpecBoundary: build_boundary and build_city_boundary called on          *)
(* reference frames and typed selectors.                                   *)

Dallas == <<"D","a","l","l","a","s">>
Paris == <<"P","a","r","i","s">>

\* The shape of the i-th row of a reference frame: the i-th square of the
\* grid, so that rows 1 and 2 share an edge and rows 1 and 3 are apart.
SquareAt(i) == Geom("Polygon", {<<2 * (((i - 1) % GridW) + 1) - 1, 1>>})

WithShapes(frame) ==
    [crs |-> frame.crs,
     rows |-> [i \in 1..Len(frame.rows) |->
                 [k \in DOMAIN frame.rows[i] \cup {"geometry"} |->
                     IF k = "geometry" THEN SquareAt(i) ELSE frame.rows[i][k]]]]

Attributes(row) == [k \in DOMAIN row \ {"geometry"} |-> row[k]]

StatesShapeFrames == {WithShapes(f) : f \in StatesFrames}

SampleStates ==
    WithShapes([crs |-> CRS_A,
                rows |-> << [NAME |-> Texas, STUSPS |-> TX, STATEFP |-> <<"4","8">>],
                            [NAME |-> Ohio, STUSPS |-> OH, STATEFP |-> <<"3","9">>] >>])

\* Rows of tl_2020_us_county: GEOID.
Geoid48113 == <<"4","8","1","1","3">>
Geoid39049 == <<"3","9","0","4","9">>
CountyRecords == [GEOID : {Geoid48113, Geoid39049}]
CountiesFrames ==
    {WithShapes([crs |-> CRS_A, rows |-> r]) : r \in SeqsUpTo(CountyRecords, MaxCounties)}

SampleCounties ==
    WithShapes([crs |-> CRS_A,
                rows |-> << [GEOID |-> Geoid48113], [GEOID |-> Geoid39049] >>])

\* Rows of tl_2020_<fips>_place: NAME, STATEFP.
PlaceRecords == [NAME : {Dallas, Paris}, STATEFP : {<<"4","8">>, <<"3","9">>}]
PlacesFrames ==
    {WithShapes([crs |-> CRS_A, rows |-> r]) : r \in SeqsUpTo(PlaceRecords, MaxPlaces)}

\* Typed county codes: well formed, too short, too long, with a letter, with
\* a digit outside ASCII, all digits outside ASCII, empty, padded.
FipsInputs ==
    { Geoid48113, Geoid39049,
      <<"4","8","9","9","9">>,
      <<"4","8","1","1">>,
      <<"4","8","1","1","3","3">>,
      <<"4","8","1","1","x">>,
      <<"4","8","1","1","\\u00b2">>,
      <<"\\u0663","\\u0663","\\u0663","\\u0663","\\u0663">>,
      <<>> }
    \cup {Pad(l) \o Geoid48113 \o Pad(r) : l \in 0..MaxPad, r \in 0..MaxPad}

BoundaryTypeForms(t) == {t, Pad(MaxPad) \o upper(t) \o Pad(MaxPad)}

InitBoundary ==
    /\ \/ /\ pc = "build_boundary"
          /\ \/ /\ user_input \in [boundary_type : BoundaryTypeForms(StateType),
                                   boundary_value : {Texas, lower(TX), OH, Zzland,
                                                     Pad(MaxPad) \o Ohio \o Pad(MaxPad)}]
                /\ states_gdf \in StatesShapeFrames
                /\ counties_gdf = SampleCounties
             \/ /\ user_input \in [boundary_type : BoundaryTypeForms(FipsType),
                                   boundary_value : FipsInputs]
                /\ states_gdf = SampleStates
                /\ counties_gdf \in CountiesFrames
             \/ /\ user_input \in [boundary_type : {CityType, <<>>},
                                   boundary_value : {Dallas, Geoid48113}]
                /\ states_gdf = SampleStates
                /\ counties_gdf = SampleCounties
          /\ places_gdf = NoFrame
       \/ /\ pc = "build_city_boundary"
          /\ user_input \in [city_name : TypedForms(Dallas) \cup {Zzland},
                             state_input : {TX, lower(Texas), OH, Zzland}]
          /\ states_gdf = SampleStates
          /\ counties_gdf = NoFrame
          /\ places_gdf \in PlacesFrames
    /\ roads_gdf = NoFrame
    /\ base = NoFrame
    /\ boundary = Nothing
    /\ state_fips = Nothing
    /\ ret = Nothing
    /\ error = "None"
    /\ outputs = {}
    /\ events = <<>>
    /\ locals = <<>>

BuildBoundaryCall ==
    /\ pc = "build_boundary"
    /\ Finish(build_boundary(user_input.boundary_type, user_input.boundary_value,
                             states_gdf, counties_gdf))
    /\ UNCHANGED <<user_input, states_gdf, counties_gdf, places_gdf, roads_gdf,
                   base, boundary, state_fips, outputs, events, locals>>

BuildCityBoundaryCall ==
    /\ pc = "build_city_boundary"
    /\ \E download_ok \in BOOLEAN :
          Finish(build_city_boundary(user_input.city_name, user_input.state_input,
                                     states_gdf, places_gdf, download_ok))
    /\ UNCHANGED <<user_input, states_gdf, counties_gdf, places_gdf, roads_gdf,
                   base, boundary, state_fips, outputs, events, locals>>

NextBoundary == BuildBoundaryCall \/ BuildCityBoundaryCall

SpecBoundary == InitBoundary /\ [][NextBoundary]_vars

-----------------------------------------------------------------------------
(* Claims about the boundary builders, under SpecBoundary. *)

BoundaryNotFound == {NoStateFound, NoCountyFound, NoPlaceFound}

IsBuildBoundary == "boundary_type" \in DOMAIN user_input
IsBuildCity == "city_name" \in DOMAIN user_input

StateMode ==
    IsBuildBoundary /\ EqIgnoreCase(strip(user_input.boundary_type), StateType)
CountyMode ==
    IsBuildBoundary /\ EqIgnoreCase(strip(user_input.boundary_type), FipsType)

\* The county code the validation sees.
TypedCode == strip(user_input.boundary_value)

FiveAsciiDigits(code) ==
    /\ Len(code) = 5
    /\ \A i \in 1..Len(code) : code[i] \in AsciiDigits

\* The reference frame a mode selects from, and the rows its resolved
\* identifier matches (absent when no identifier was resolved).
ReferenceFrame ==
    IF IsBuildCity THEN places_gdf
    ELSE IF StateMode THEN states_gdf
    ELSE counties_gdf

MatchedRows ==
    IF IsBuildCity
    THEN LET r == resolve_state_fips(states_gdf, user_input.state_input)
         IN  IF r.err # "None" \/ error = HTTPError THEN Nothing
             ELSE Some({i \in 1..Len(places_gdf.rows) :
                         /\ EqIgnoreCase(places_gdf.rows[i].NAME,
                                         strip(user_input.city_name))
                         /\ places_gdf.rows[i].STATEFP = r.val[1]})
    ELSE IF StateMode
    THEN LET r == resolve_state_fips(states_gdf, user_input.boundary_value)
         IN  IF r.err # "None" THEN Nothing
             ELSE Some({i \in 1..Len(states_gdf.rows) :
                         states_gdf.rows[i].STATEFP = r.val[1]})
    ELSE IF CountyMode /\ error # FipsNot5Digits
    THEN Some({i \in 1..Len(counties_gdf.rows) :
                 counties_gdf.rows[i].GEOID = TypedCode})
    ELSE Nothing

\* C3 as stated: a code is accepted if and only if it is 5 ASCII digits;
\* any other code fails as invalid input, a well-formed code of no county
\* fails as unresolved, a well-formed code of a county succeeds with that
\* same code.
C3_FiveAsciiDigitsOnly ==
    (Finished /\ CountyMode) =>
        /\ (error = FipsNot5Digits) <=> ~FiveAsciiDigits(TypedCode)
        /\ FiveAsciiDigits(TypedCode) =>
              IF \E i \in 1..Len(counties_gdf.rows) :
                     counties_gdf.rows[i].GEOID = TypedCode
              THEN /\ error = "None"
                   /\ ret # Nothing
                   /\ ret[1].rows[1].GEOID = TypedCode
              ELSE /\ error = NoCountyFound
                   /\ ret = Nothing

\* C5: in each mode, an empty selection fails as boundary-not-found and a
\* non-empty one returns exactly one feature, a polygon or multi-polygon
\* that is the union of every matched row; no returned boundary is empty or
\* has more than one feature.
C5_OneFeatureOrNotFound ==
    (Finished /\ (IsBuildBoundary \/ IsBuildCity)) =>
        /\ ret # Nothing => Len(ret[1].rows) = 1
        /\ MatchedRows # Nothing =>
              IF MatchedRows[1] = {}
              THEN error \in BoundaryNotFound /\ ret = Nothing
              ELSE /\ error = "None"
                   /\ ret # Nothing
                   /\ Len(ret[1].rows) = 1
                   /\ ret[1].rows[1].geometry.cells =
                         UNION {ReferenceFrame.rows[i].geometry.cells :
                                   i \in MatchedRows[1]}
                   /\ ret[1].rows[1].geometry.type \in polygonish

\* A county whose GEOID is on three rows, two of them apart, comes back as
\* one multi-polygon.
C5_Witness ==
    /\ pc = "returned"
    /\ CountyMode
    /\ MatchedRows = Some({1, 3})
    /\ Len(ret[1].rows) = 1
    /\ ret[1].rows[1].geometry.type = "MultiPolygon"

-----------------------------------------------------------------------------
(* SpecClip: clip_layer_to_boundary called on a layer and a boundary.      *)

\* Features a layer may hold, in the layer's own coordinates.
CountyA == [NAME |-> "CountyA", geometry |-> Geom("Polygon", {<<1,1>>})]
Region == [NAME |-> "Region", geometry |-> Geom("Polygon", {<<1,1>>, <<3,1>>, <<5,1>>})]
Islands == [NAME |-> "Islands", geometry |-> Geom("MultiPolygon", {<<1,1>>, <<5,1>>})]
RoadSouth == [NAME |-> "RoadSouth", geometry |-> Geom("LineString", {<<1,0>>, <<3,0>>, <<5,0>>})]
RoadShort == [NAME |-> "RoadShort", geometry |-> Geom("LineString", {<<1,0>>})]
RoadEast == [NAME |-> "RoadEast", geometry |-> Geom("LineString", {<<6,1>>})]
RoadLoop ==
    [NAME |-> "RoadLoop",
     geometry |-> Geom("LineString", {<<1,0>>, <<3,0>>, <<5,0>>, <<6,1>>, <<5,2>>, <<3,2>>})]
Marker == [NAME |-> "Marker", geometry |-> Geom("Point", {<<2,0>>})]

Features == <<CountyA, Region, Islands, RoadSouth, RoadShort, RoadEast, RoadLoop, Marker>>

\* The layers hold their features in the order of Features: the clip treats
\* every row alike, whatever its place.
FeatureLists ==
    {[i \in 1..Len(ks) |-> Features[ks[i]]] :
        ks \in {q \in SeqsUpTo(1..Len(Features), MaxFeatures) :
                   \A i \in 1..(Len(q) - 1) : q[i] <= q[i + 1]}}

\* read_file numbers the rows from 0.
Layer(crs, feats) ==
    [crs |-> crs,
     rows |-> [i \in 1..Len(feats) |->
                 [index |-> i - 1, NAME |-> feats[i].NAME, geometry |-> feats[i].geometry]]]

Layers == {Layer(crs, feats) : crs \in {NoCRS, CRS_A, CRS_B}, feats \in FeatureLists}

\* A built boundary: one row, the union of some squares of the grid.
Squares == {c \in Cells : Dim(c) = 2}
Boundaries ==
    {[crs |-> crs,
      rows |-> << [geometry |-> [type |-> GeomTypeOf(ClosureOf(F)), cells |-> ClosureOf(F)]] >>] :
        crs \in {NoCRS, CRS_A, CRS_B}, F \in SUBSET Squares \ {{}}}

InitClip ==
    /\ pc = "clip_layer_to_boundary"
    /\ base \in Layers
    /\ boundary \in {Some(b) : b \in Boundaries}
    /\ user_input = [layer_shp |-> "layer.shp"]
    /\ states_gdf = NoFrame
    /\ counties_gdf = NoFrame
    /\ places_gdf = NoFrame
    /\ roads_gdf = NoFrame
    /\ state_fips = Nothing
    /\ ret = Nothing
    /\ error = "None"
    /\ outputs = {}
    /\ events = <<>>
    /\ locals = <<>>

ClipCall ==
    /\ pc = "clip_layer_to_boundary"
    /\ \E read_ok \in BOOLEAN, write_ok \in BOOLEAN :
          Finish(clip_layer_to_boundary(base, boundary[1], read_ok, write_ok))
    /\ UNCHANGED <<user_input, states_gdf, counties_gdf, places_gdf, roads_gdf,
                   base, boundary, state_fips, outputs, events, locals>>

NextClip == ClipCall

SpecClip == InitClip /\ [][NextClip]_vars

-----------------------------------------------------------------------------
(* Claims about the clip, under SpecClip. *)

IsClip == "layer_shp" \in DOMAIN user_input

\* The call got as far as an answer about the geometry: reading the layer
\* and writing the result did not fail.
ClipAnswered == Finished /\ IsClip /\ error # IOFailure

\* The boundary's point set in the coordinates of the layer.
BoundaryInLayerCRS ==
    Transform(boundary[1].rows[1].geometry.cells, boundary[1].crs, base.crs)

LayerTypes == {base.rows[i].geometry.type : i \in 1..Len(base.rows)}

\* The part of the i-th layer feature inside the boundary, and the type the
\* engine gives it.
PartInside(i) == base.rows[i].geometry.cells \cap BoundaryInLayerCRS
TypeInside(i) ==
    IF base.rows[i].geometry.cells \subseteq BoundaryInLayerCRS
    THEN base.rows[i].geometry.type
    ELSE GeomTypeOf(PartInside(i))

Intersecting == {i \in 1..Len(base.rows) : PartInside(i) # {}}
Inside ==
    {i \in 1..Len(base.rows) : base.rows[i].geometry.cells \subseteq BoundaryInLayerCRS}

\* The rows of the result that come from the i-th layer feature.
ResultOf(i) ==
    {k \in 1..Len(ret[1].rows) : ret[1].rows[k].index = base.rows[i].index}

\* C6: the clip fails for a missing CRS, with no output, exactly when the
\* layer or the boundary has none; otherwise the result carries the layer's
\* CRS and every result geometry lies in the layer's feature as the layer
\* gives it and in the boundary brought into the layer's system.
C6_ResultInLayerCRS ==
    ClipAnswered =>
        /\ (error = CRSMissing) <=> (base.crs = NoCRS \/ boundary[1].crs = NoCRS)
        /\ error = CRSMissing => ret = Nothing
        /\ error # CRSMissing =>
              /\ ret # Nothing
              /\ ret[1].crs = base.crs
              /\ \A k \in 1..Len(ret[1].rows) :
                    \E i \in 1..Len(base.rows) :
                        /\ ret[1].rows[k].index = base.rows[i].index
                        /\ ret[1].rows[k].geometry.cells = PartInside(i)

\* A layer and a boundary in different systems, with a feature that the
\* boundary covers only once it is reprojected.
C6_Witness ==
    /\ pc = "returned"
    /\ IsClip
    /\ base.crs = CRS_B
    /\ boundary[1].crs = CRS_A
    /\ ret[1].crs = CRS_B
    /\ \E i \in 1..Len(base.rows) :
          /\ base.rows[i].geometry.cells \cap boundary[1].rows[1].geometry.cells = {}
          /\ ResultOf(i) # {}

Families == {polygonish, lineish, pointish}

\* C7: when the layer's types lie in one family, so do the types of the
\* result, whatever types the intersections have.
C7_TypeHomogeneous ==
    (ClipAnswered /\ ret # Nothing) =>
        \A family \in Families :
            LayerTypes \subseteq family =>
                \A k \in 1..Len(ret[1].rows) : ret[1].rows[k].geometry.type \in family

\* A polygon layer one of whose features meets the boundary along an edge
\* only: the line is left out, the polygons are kept.
C7_Witness ==
    /\ pc = "returned"
    /\ IsClip
    /\ LayerTypes # {}
    /\ LayerTypes \subseteq polygonish
    /\ \E i \in Intersecting : TypeInside(i) \in lineish
    /\ ret[1].rows # <<>>
    /\ \A k \in 1..Len(ret[1].rows) : ret[1].rows[k].geometry.type \in polygonish

MixedLayer == \A family \in Families : ~(LayerTypes \subseteq family)

\* C10 as stated: a layer of mixed families is not filtered; every feature
\* the intersection produces is in the result, whatever its type.
C10_MixedPassesEverything ==
    (ClipAnswered /\ ret # Nothing /\ MixedLayer) =>
        \A i \in Intersecting : ResultOf(i) # {}

\* C10 amended: a layer of mixed families keeps exactly the intersection
\* features whose type occurs in the layer before the clip.
C10_MixedKeepsLayerTypes ==
    (ClipAnswered /\ ret # Nothing /\ MixedLayer) =>
        \A i \in 1..Len(base.rows) :
            /\ ResultOf(i) # {} <=> (i \in Intersecting /\ TypeInside(i) \in LayerTypes)
            /\ \A k \in ResultOf(i) :
                  /\ ret[1].rows[k].geometry.type = TypeInside(i)
                  /\ ret[1].rows[k].geometry.cells = PartInside(i)

\* A layer of a polygon and a line: the polygon's edge on the border passes
\* as a line, the road cut in two pieces is dropped as a multi-line.
C10_Witness ==
    /\ pc = "returned"
    /\ IsClip
    /\ LayerTypes = {"Polygon", "LineString"}
    /\ \E i \in Intersecting :
          /\ base.rows[i].geometry.type = "Polygon"
          /\ TypeInside(i) = "LineString"
          /\ ResultOf(i) # {}
    /\ \E i \in Intersecting :
          /\ TypeInside(i) = "MultiLineString"
          /\ ResultOf(i) = {}

-----------------------------------------------------------------------------
(* SpecMain: one run of main(). *)

\* The STATEFP values the server has a PRISECROADS and a PLACE file for.
ServerHas == {<<"4","8">>, <<"3","9">>, <<"0","6">>}

Event(kind, what, arg, outcome) ==
    [kind |-> kind, what |-> what, arg |-> arg, outcome |-> outcome]

Abort(e) ==
    /\ error' = e
    /\ pc' = "raised"

\* Lines 253-266: the choice and the texts, as typed.
ReadChoice ==
    /\ pc = "main"
    /\ LET choice == lower(strip(user_input.choice))
       IN  IF choice \in {<<"1">>, StateType}
           THEN /\ locals' = [mode |-> "state", value |-> strip(user_input.first),
                              city_state |-> <<>>]
                /\ pc' = "download_reference"
                /\ error' = error
           ELSE IF choice \in {<<"2">>, CityType}
           THEN /\ locals' = [mode |-> "city", value |-> strip(user_input.first),
                              city_state |-> strip(user_input.second)]
                /\ pc' = "download_reference"
                /\ error' = error
           ELSE IF choice \in {<<"3">>, FipsType}
           THEN /\ locals' = [mode |-> "fips", value |-> strip(user_input.first),
                              city_state |-> <<>>]
                /\ pc' = "download_reference"
                /\ error' = error
           ELSE /\ Abort(InvalidChoice)
                /\ locals' = locals
    /\ UNCHANGED <<user_input, states_gdf, counties_gdf, places_gdf, roads_gdf,
                   base, boundary, state_fips, ret, outputs, events>>

\* Lines 268-273: the national states and counties files.
DownloadReference ==
    /\ pc = "download_reference"
    /\ \E states_ok \in BOOLEAN, counties_ok \in BOOLEAN :
          IF ~states_ok
          THEN /\ counties_ok
               /\ events' = Append(events, Event("download", "states", <<>>, HTTPError))
               /\ Abort(HTTPError)
          ELSE IF ~counties_ok
          THEN /\ events' = events \o << Event("download", "states", <<>>, "ok"),
                                         Event("download", "counties", <<>>, HTTPError) >>
               /\ Abort(HTTPError)
          ELSE /\ events' = events \o << Event("download", "states", <<>>, "ok"),
                                         Event("download", "counties", <<>>, "ok") >>
               /\ pc' = "state_fips"
               /\ error' = error
    /\ UNCHANGED <<user_input, states_gdf, counties_gdf, places_gdf, roads_gdf,
                   base, boundary, state_fips, ret, outputs, locals>>

\* The first n characters of a text: s[:n].
Prefix(s, n) == SubSeq(s, 1, IF Len(s) < n THEN Len(s) ELSE n)

\* Lines 275-284: the STATEFP of the roads file.
DetermineStateFips ==
    /\ pc = "state_fips"
    /\ IF locals.mode = "fips"
       THEN /\ state_fips' = Some(Prefix(locals.value, 2))
            /\ pc' = "download_roads"
            /\ error' = error
       ELSE LET r == resolve_state_fips(states_gdf,
                        IF locals.mode = "state" THEN locals.value
                        ELSE locals.city_state)
            IN  IF r.err = "None"
                THEN /\ state_fips' = r.val
                     /\ pc' = "download_roads"
                     /\ error' = error
                ELSE /\ Abort(r.err)
                     /\ state_fips' = state_fips
    /\ UNCHANGED <<user_input, states_gdf, counties_gdf, places_gdf, roads_gdf,
                   base, boundary, ret, outputs, events, locals>>

\* Lines 286-289: the state's primary and secondary roads file.
DownloadRoads ==
    /\ pc = "download_roads"
    /\ \E ok \in BOOLEAN :
          /\ ok => state_fips[1] \in ServerHas
          /\ IF ok
             THEN /\ events' = Append(events,
                        Event("download", "prisecroads", state_fips[1], "ok"))
                  /\ pc' = "build_boundary"
                  /\ error' = error
             ELSE /\ events' = Append(events,
                        Event("download", "prisecroads", state_fips[1], HTTPError))
                  /\ Abort(HTTPError)
    /\ UNCHANGED <<user_input, states_gdf, counties_gdf, places_gdf, roads_gdf,
                   base, boundary, state_fips, ret, outputs, locals>>

\* Lines 291-305: the boundary; the city boundary is also written to a file.
BuildBoundary ==
    /\ pc = "build_boundary"
    /\ \E download_ok \in BOOLEAN, write_ok \in BOOLEAN :
          LET r == IF locals.mode = "city"
                   THEN build_city_boundary(locals.value, locals.city_state,
                                            states_gdf, places_gdf, download_ok)
                   ELSE IF locals.mode = "state"
                   THEN build_boundary(StateType, locals.value, states_gdf, counties_gdf)
                   ELSE build_boundary(FipsType, locals.value, states_gdf, counties_gdf)
          IN  /\ locals.mode = "city" \/ (download_ok /\ write_ok)
              /\ download_ok => state_fips[1] \in ServerHas
              /\ boundary' = r.val
              /\ events' =
                    IF locals.mode = "city" /\ r.err # CouldNotResolveState
                    THEN Append(events,
                             Event("download", "places", state_fips[1],
                                   IF download_ok THEN "ok" ELSE HTTPError))
                    ELSE events
              /\ IF r.err # "None"
                 THEN Abort(r.err) /\ outputs' = outputs
                 ELSE IF locals.mode = "city" /\ ~write_ok
                 THEN Abort(IOFailure) /\ outputs' = outputs
                 ELSE /\ pc' = "clip_roads"
                      /\ error' = error
                      /\ outputs' = IF locals.mode = "city"
                                    THEN outputs \cup {[path |-> "city_boundary.shp",
                                                        data |-> r.val[1]]}
                                    ELSE outputs
    /\ UNCHANGED <<user_input, states_gdf, counties_gdf, places_gdf, roads_gdf,
                   base, state_fips, ret, locals>>

\* One guarded clip of main(): the call, and the report of its exception.
TryClip(what, layer, path, next) ==
    \E read_ok \in BOOLEAN, write_ok \in BOOLEAN :
        LET r == clip_layer_to_boundary(layer, boundary[1], read_ok, write_ok)
        IN  /\ pc' = next
            /\ error' = error
            /\ IF r.err = "None"
               THEN /\ events' = Append(events, Event("clip", what, boundary[1], "ok"))
                    /\ outputs' = outputs \cup {[path |-> path, data |-> r.val[1]]}
               ELSE /\ events' = events \o << Event("clip", what, boundary[1], r.err),
                                              Event("print", what, <<>>, r.err) >>
                    /\ outputs' = outputs

\* The clip without its try/except: the exception ends the run.
ClipRoads_unguarded ==
    /\ pc = "clip_roads"
    /\ \E read_ok \in BOOLEAN, write_ok \in BOOLEAN :
          LET r == clip_layer_to_boundary(roads_gdf, boundary[1], read_ok, write_ok)
          IN  /\ events' = Append(events, Event("clip", "roads", boundary[1], r.err))
              /\ IF r.err = "None"
                 THEN /\ pc' = "clip_counties"
                      /\ error' = error
                      /\ outputs' = outputs \cup {[path |-> "roads_clipped.shp",
                                                   data |-> r.val[1]]}
                 ELSE /\ Abort(r.err)
                      /\ outputs' = outputs
    /\ UNCHANGED <<user_input, states_gdf, counties_gdf, places_gdf, roads_gdf,
                   base, boundary, state_fips, ret, locals>>

\* Lines 316-319.
ClipRoads ==
    /\ pc = "clip_roads"
    /\ TryClip("roads", roads_gdf, "roads_clipped.shp", "clip_counties")
    /\ UNCHANGED <<user_input, states_gdf, counties_gdf, places_gdf, roads_gdf,
                   base, boundary, state_fips, ret, locals>>

\* Lines 321-324.
ClipCounties ==
    /\ pc = "clip_counties"
    /\ TryClip("counties", counties_gdf, "counties_clipped.shp", "done")
    /\ UNCHANGED <<user_input, states_gdf, counties_gdf, places_gdf, roads_gdf,
                   base, boundary, state_fips, ret, locals>>

\* What is typed at the prompts.
MainInputs ==
    [choice : {<<"1">>, Pad(MaxPad) \o upper(StateType)},
     first : {TX, lower(Texas), Zzland, Pad(MaxPad) \o Ohio},
     second : {<<>>}]
    \cup
    [choice : {<<"2">>, CityType},
     first : {Dallas, upper(Paris), Zzland},
     second : {TX, lower(Ohio), Zzland}]
    \cup
    [choice : {<<"3">>, upper(FipsType)},
     first : FipsInputs \cup {<<"x">>, <<"9","9","1","2","3">>},
     second : {<<>>}]
    \cup
    [choice : {<<"4">>, <<>>}, first : {<<>>}, second : {<<>>}]

ThreeRoads(crs) == Layer(crs, <<RoadSouth, RoadShort, RoadEast>>)

InitMain ==
    /\ pc = "main"
    /\ user_input \in MainInputs
    /\ \E crs \in {CRS_A, NoCRS} :
          /\ states_gdf = [SampleStates EXCEPT !.crs = crs]
          /\ counties_gdf \in
                {[c EXCEPT !.crs = crs] :
                    c \in {SampleCounties,
                           WithShapes([crs |-> CRS_A,
                                       rows |-> << [GEOID |-> Geoid48113],
                                                   [GEOID |-> Geoid39049],
                                                   [GEOID |-> Geoid48113] >>])}}
    /\ places_gdf \in
          {WithShapes([crs |-> CRS_A,
                       rows |-> << [NAME |-> Dallas, STATEFP |-> <<"4","8">>],
                                   [NAME |-> Paris, STATEFP |-> <<"4","8">>] >>]),
           WithShapes([crs |-> CRS_B,
                       rows |-> << [NAME |-> Paris, STATEFP |-> <<"3","9">>],
                                   [NAME |-> Paris, STATEFP |-> <<"3","9">>] >>])}
    /\ roads_gdf \in {ThreeRoads(crs) : crs \in {CRS_A, CRS_B, NoCRS}}
    /\ base = NoFrame
    /\ boundary = Nothing
    /\ state_fips = Nothing
    /\ ret = Nothing
    /\ error = "None"
    /\ outputs = {}
    /\ events = <<>>
    /\ locals = <<>>

NextMain ==
    \/ ReadChoice
    \/ DownloadReference
    \/ DetermineStateFips
    \/ DownloadRoads
    \/ BuildBoundary
    \/ ClipRoads
    \/ ClipCounties

SpecMain == InitMain /\ [][NextMain]_vars

-----------------------------------------------------------------------------
(* Claims about the run, under SpecMain. *)

InMain == "choice" \in DOMAIN user_input

CountyRun == InMain /\ "mode" \in DOMAIN locals /\ locals.mode = "fips"

RoadsDownloads ==
    {i \in 1..Len(events) :
        events[i].kind = "download" /\ events[i].what = "prisecroads"}

\* C4 as stated: in a county run with a malformed code, no state prefix is
\* derived from the code and no roads file is requested with it.
C4_ValidatedBeforeRoads ==
    (CountyRun /\ ~FiveAsciiDigits(locals.value)) =>
        /\ state_fips = Nothing
        /\ RoadsDownloads = {}

ClipCalls(what) ==
    {i \in 1..Len(events) : events[i].kind = "clip" /\ events[i].what = what}

Reports(what) ==
    {i \in 1..Len(events) : events[i].kind = "print" /\ events[i].what = what}

\* C9: once the boundary step is over, the run goes through both clips to
\* its end: the roads clip has been called by the time the counties clip is
\* due, both by the end; no run ends on an exception after a clip was
\* called; a clip that failed is followed by the report for its layer, and
\* nothing else is reported; every clip was handed the boundary as built.
C9_BothClipsAttempted ==
    InMain =>
        /\ pc \in {"clip_roads", "clip_counties", "done"} =>
              /\ boundary # Nothing
              /\ error = "None"
        /\ pc \in {"clip_roads", "clip_counties"} => ENABLED NextMain
        /\ pc \in {"clip_counties", "done"} => Cardinality(ClipCalls("roads")) = 1
        /\ pc = "done" => Cardinality(ClipCalls("counties")) = 1
        /\ pc = "raised" => ClipCalls("roads") \cup ClipCalls("counties") = {}
        /\ \A what \in {"roads", "counties"} :
              /\ \A i \in ClipCalls(what) :
                    /\ events[i].arg = boundary[1]
                    /\ events[i].outcome # "ok" =>
                          /\ i + 1 \in Reports(what)
                          /\ events[i + 1].outcome = events[i].outcome
              /\ \A j \in Reports(what) :
                    /\ j - 1 \in ClipCalls(what)
                    /\ events[j - 1].outcome # "ok"

\* A run to the end whose roads clip failed for a missing CRS and whose
\* counties clip then wrote its file.
C9_Witness ==
    /\ InMain
    /\ pc = "done"
    /\ \E i \in ClipCalls("roads") : events[i].outcome = CRSMissing
    /\ \E i \in ClipCalls("counties") : events[i].outcome = "ok"
    /\ \E o \in outputs : o.path = "counties_clipped.shp"
    /\ \A o \in outputs : o.path # "roads_clipped.shp"

=============================================================================
